---- MODULE Spec2Model ----
(***************************************************************************)
(* Model of the rich-document renderer of src/server.py:                   *)
(* extract_comment_text, _process_content_nodes and get_description_text.  *)
(*                                                                         *)
(* A Python string is a sequence of one-character strings.  The bullet     *)
(* character U+2022 is the single character BULLET.  A decoded JSON value  *)
(* is a record of one shape:                                               *)
(*   k     : "null" | "bool" | "num" | "str" | "list" | "map"              *)
(*   n     : the integer of a num, 1/0 for a bool                          *)
(*   s     : the characters of a str                                       *)
(*   items : the elements of a list, the values of a map (insertion order) *)
(*   keys  : the keys of a map (strings), parallel to items                *)
(* The result of a call is [exc, val]: exc = "" and the returned value, or *)
(* the name of the exception that escaped the call.                        *)
(***************************************************************************)
EXTENDS Integers, Sequences, FiniteSets, TLC

VARIABLES input, comment_out, desc_out

vars == <<input, comment_out, desc_out>>

----------------------------------------------------------------------------
(* Bounds of the model *)

(* calls of each function on one input *)
MaxCalls == 2

(* depth of list nesting *)
MaxNest == 3

(* items of a list *)
MaxItems == 2

(* largest heading level *)
MaxLevel == 3

(* length of a plain-string input *)
MaxStrLen == 2

----------------------------------------------------------------------------
(* Decoded JSON values *)

JNull == [k |-> "null", n |-> 0, s |-> <<>>, items |-> <<>>, keys |-> <<>>]

JBool(b) == [k |-> "bool", n |-> IF b THEN 1 ELSE 0, s |-> <<>>, items |-> <<>>, keys |-> <<>>]

JNum(i) == [k |-> "num", n |-> i, s |-> <<>>, items |-> <<>>, keys |-> <<>>]

JStr(cs) == [k |-> "str", n |-> 0, s |-> cs, items |-> <<>>, keys |-> <<>>]

JList(xs) == [k |-> "list", n |-> 0, s |-> <<>>, items |-> xs, keys |-> <<>>]

JMap(ks, xs) == [k |-> "map", n |-> 0, s |-> <<>>, items |-> xs, keys |-> ks]

Ok(v) == [exc |-> "", val |-> v]

Raise(e) == [exc |-> e, val |-> JNull]

(* The literals of the source, as character sequences; the bullet and the
   backtick are written by their code points *)
BULLET == "U+2022"

NL == "\n"

s_type == <<"t","y","p","e">>
s_text == <<"t","e","x","t">>
s_content == <<"c","o","n","t","e","n","t">>
s_attrs == <<"a","t","t","r","s">>
s_marks == <<"m","a","r","k","s">>
s_level == <<"l","e","v","e","l">>
s_href == <<"h","r","e","f">>
s_link == <<"l","i","n","k">>
s_paragraph == <<"p","a","r","a","g","r","a","p","h">>
s_heading == <<"h","e","a","d","i","n","g">>
s_bulletList == <<"b","u","l","l","e","t","L","i","s","t">>
s_orderedList == <<"o","r","d","e","r","e","d","L","i","s","t">>
s_listItem == <<"l","i","s","t","I","t","e","m">>
s_codeBlock == <<"c","o","d","e","B","l","o","c","k">>
s_rule == <<"r","u","l","e">>
s_mention == <<"m","e","n","t","i","o","n">>
s_hardBreak == <<"h","a","r","d","B","r","e","a","k">>
s_unknown == <<"@","u","n","k","n","o","w","n">>
s_doc == <<"d","o","c">>
s_panel == <<"p","a","n","e","l">>
s_strong == <<"s","t","r","o","n","g">>
BACKTICK == "U+0060"

s_fence == <<BACKTICK, BACKTICK, BACKTICK>>
s_dashes == <<"-","-","-">>
s_None == <<"N","o","n","e">>
s_True == <<"T","r","u","e">>
s_False == <<"F","a","l","s","e">>

----------------------------------------------------------------------------
(* Python's built-in operations on these values *)

(* dict.__contains__ *)
HasKey(m, key) == \E i \in 1..Len(m.keys) : m.keys[i] = key

(* dict.__getitem__ of a key that is present *)
Item(m, key) == m.items[CHOOSE i \in 1..Len(m.keys) : m.keys[i] = key]

(* dict.get(key, default) *)
Get(m, key, default) == IF HasKey(m, key) THEN Item(m, key) ELSE default

(* bool(v) *)
Truthy(v) ==
  CASE v.k = "null" -> FALSE
    [] v.k = "bool" -> v.n = 1
    [] v.k = "num" -> v.n # 0
    [] v.k = "str" -> v.s # <<>>
    [] OTHER -> v.items # <<>>

(* v == "literal" *)
IsStr(v, cs) == v.k = "str" /\ v.s = cs

(* iter(v) is defined *)
Iterable(v) == v.k \in {"str", "list", "map"}

(* list(iter(v)): the elements of a list, the keys of a dict, the characters of a str *)
Iter(v) ==
  CASE v.k = "list" -> v.items
    [] v.k = "map" -> [i \in 1..Len(v.keys) |-> JStr(v.keys[i])]
    [] OTHER -> [i \in 1..Len(v.s) |-> JStr(<<v.s[i]>>)]

(* s * n for a str s *)
RECURSIVE Repeat(_, _)
Repeat(cs, n) == IF n <= 0 THEN <<>> ELSE cs \o Repeat(cs, n - 1)

Digit(d) == <<"0","1","2","3","4","5","6","7","8","9">>[d + 1]

(* str(i) for an int i *)
RECURSIVE IntStr(_)
IntStr(i) ==
  IF i < 0 THEN <<"-">> \o IntStr(-i)
  ELSE IF i < 10 THEN <<Digit(i)>>
  ELSE IntStr(i \div 10) \o <<Digit(i % 10)>>

(* sep.join(parts) for strs *)
RECURSIVE JoinStr(_, _)
JoinStr(sep, parts) ==
  IF parts = <<>> THEN <<>>
  ELSE IF Len(parts) = 1 THEN parts[1]
  ELSE parts[1] \o sep \o JoinStr(sep, Tail(parts))

(* repr(v); the strings of the model hold no quote, backslash or control character *)
RECURSIVE PyRepr(_)
PyRepr(v) ==
  CASE v.k = "null" -> s_None
    [] v.k = "bool" -> IF v.n = 1 THEN s_True ELSE s_False
    [] v.k = "num" -> IntStr(v.n)
    [] v.k = "str" -> <<"'">> \o v.s \o <<"'">>
    [] v.k = "list" ->
         <<"[">> \o JoinStr(<<",", " ">>, [i \in 1..Len(v.items) |-> PyRepr(v.items[i])]) \o <<"]">>
    [] OTHER ->
         <<"{">> \o JoinStr(<<",", " ">>,
                    [i \in 1..Len(v.keys) |->
                       <<"'">> \o v.keys[i] \o <<"'", ":", " ">> \o PyRepr(v.items[i])])
                 \o <<"}">>

(* str(v), and the formatting of v in an f-string *)
PyStr(v) == IF v.k = "str" THEN v.s ELSE PyRepr(v)

(* needle in haystack, for two strs *)
SubStr(needle, hay) ==
  \E i \in 0..(Len(hay) - Len(needle)) : SubSeq(hay, i + 1, i + Len(needle)) = needle

(* "literal" in v is defined *)
CanContain(v) == v.k \in {"str", "list", "map"}

(* "literal" in v *)
Contains(v, cs) ==
  CASE v.k = "map" -> HasKey(v, cs)
    [] v.k = "list" -> \E i \in 1..Len(v.items) : IsStr(v.items[i], cs)
    [] OTHER -> SubStr(cs, v.s)

----------------------------------------------------------------------------
(* _process_content_nodes, src/server.py lines 103 to 195 *)

EmptyStr == JStr(<<>>)

EmptyList == JList(<<>>)

EmptyMap == JMap(<<>>, <<>>)

(* indent = "  " * indent_level *)
Indent(indent_level) == Repeat(<<" ", " ">>, indent_level)

(* MarksLoop skipping a link whose href is falsy *)
RECURSIVE MarksLoopNonEmptyHref(_, _, _)
MarksLoopNonEmptyHref(marks, i, text) ==
  IF i > Len(marks) THEN Ok(text)
  ELSE LET mark == marks[i] IN
    IF mark.k # "map" THEN Raise("AttributeError")
    ELSE IF ~IsStr(Get(mark, s_type, JNull), s_link) THEN MarksLoopNonEmptyHref(marks, i + 1, text)
    ELSE IF ~HasKey(mark, s_attrs) THEN MarksLoopNonEmptyHref(marks, i + 1, text)
    ELSE LET attrs == Item(mark, s_attrs) IN
      IF attrs.k # "map" THEN Raise("AttributeError")
      ELSE IF ~Truthy(Get(attrs, s_href, JNull)) THEN MarksLoopNonEmptyHref(marks, i + 1, text)
      ELSE MarksLoopNonEmptyHref(marks, i + 1,
             JStr(PyStr(text) \o <<" ", "(">> \o PyStr(Item(attrs, s_href)) \o <<")">>))

(* the loop over the marks of a text node, from mark number i on: the text with
   its link suffixes, or the exception *)
RECURSIVE MarksLoop(_, _, _)
MarksLoop(marks, i, text) ==
  IF i > Len(marks) THEN Ok(text)
  ELSE LET mark == marks[i] IN
    IF mark.k # "map" THEN Raise("AttributeError")
    ELSE IF ~IsStr(Get(mark, s_type, JNull), s_link) THEN MarksLoop(marks, i + 1, text)
    ELSE IF ~HasKey(mark, s_attrs) THEN MarksLoop(marks, i + 1, text)
    ELSE LET attrs == Item(mark, s_attrs) IN
      IF ~CanContain(attrs) THEN Raise("TypeError")
      ELSE IF ~Contains(attrs, s_href) THEN MarksLoop(marks, i + 1, text)
      ELSE IF attrs.k # "map" THEN Raise("TypeError")
      ELSE MarksLoop(marks, i + 1,
             JStr(PyStr(text) \o <<" ", "(">> \o PyStr(Item(attrs, s_href)) \o <<")">>))

(* node_type == "text" *)
TextNode(node, indent_level, list_prefix) ==
  LET text == Get(node, s_text, EmptyStr)
      marks == Get(node, s_marks, JNull)
      marked == IF ~Truthy(marks) THEN Ok(text)
                ELSE IF ~Iterable(marks) THEN Raise("TypeError")
                ELSE MarksLoop(Iter(marks), 1, text)
  IN IF marked.exc # "" THEN marked
     ELSE Ok(JList(<<JStr(Indent(indent_level) \o list_prefix \o PyStr(marked.val))>>))

(* node_type == "rule" *)
RuleNode(node, indent_level, list_prefix) ==
  Ok(JList(<<JStr(Indent(indent_level) \o s_dashes), EmptyStr>>))

(* node_type == "mention" *)
MentionNode(node, indent_level, list_prefix) ==
  LET attrs == Get(node, s_attrs, EmptyMap) IN
  IF attrs.k # "map" THEN Raise("AttributeError")
  ELSE Ok(JList(<<JStr(Indent(indent_level) \o list_prefix
                        \o PyStr(Get(attrs, s_text, JStr(s_unknown))))>>))

(* node_type == "hardBreak" *)
HardBreakNode(node, indent_level, list_prefix) == Ok(JList(<<EmptyStr>>))

(* the list comprehension of the codeBlock branch, from child number i on: the
   texts of the children, or the exception *)
RECURSIVE CodeTexts(_, _, _)
CodeTexts(children, i, acc) ==
  IF i > Len(children) THEN Ok(JList(acc))
  ELSE IF children[i].k # "map" THEN Raise("AttributeError")
  ELSE CodeTexts(children, i + 1, Append(acc, Get(children[i], s_text, EmptyStr)))

(* node_type == "codeBlock" *)
CodeBlockNode(node, indent_level, list_prefix) ==
  LET content == Get(node, s_content, EmptyList) IN
  IF ~Iterable(content) THEN Raise("TypeError")
  ELSE LET texts == CodeTexts(Iter(content), 1, <<>>) IN
    IF texts.exc # "" THEN texts
    ELSE IF \E i \in 1..Len(texts.val.items) : texts.val.items[i].k # "str" THEN Raise("TypeError")
    ELSE LET code_text == JoinStr(<<NL>>, [i \in 1..Len(texts.val.items) |-> texts.val.items[i].s])
             indent == Indent(indent_level)
         IN Ok(JList(<<JStr(indent \o s_fence \o <<NL>> \o code_text \o <<NL>> \o indent \o s_fence),
                       EmptyStr>>))

(* the filter of the final join: r is not None and r != [] *)
Kept(r) == r.k # "null" /\ ~(r.k = "list" /\ r.items = <<>>)

(* "\n".join([r for r in result if r is not None and r != []]) *)
JoinResult(result) ==
  LET kept == SelectSeq(result, Kept) IN
  IF \E i \in 1..Len(kept) : kept[i].k # "str" THEN Raise("TypeError")
  ELSE Ok(JStr(JoinStr(<<NL>>, [i \in 1..Len(kept) |-> kept[i].s])))

RECURSIVE _process_content_nodes(_, _, _)
RECURSIVE NodesLoop(_, _, _, _, _)
RECURSIVE BulletItems(_, _, _, _)
RECURSIVE OrderedItems(_, _, _, _)
RECURSIVE ListItemContents(_, _, _, _, _)

(* ParagraphNode passing list_prefix down to its children *)
ParagraphNodeKeepsPrefix(node, indent_level, list_prefix) ==
  LET para_text == _process_content_nodes(Get(node, s_content, EmptyList), indent_level, list_prefix) IN
  IF para_text.exc # "" THEN para_text
  ELSE IF Truthy(para_text.val) THEN Ok(JList(<<para_text.val, EmptyStr>>))
  ELSE Ok(EmptyList)

(* node_type == "paragraph": the recursive call leaves list_prefix at its default *)
ParagraphNode(node, indent_level, list_prefix) ==
  LET para_text == _process_content_nodes(Get(node, s_content, EmptyList), indent_level, <<>>) IN
  IF para_text.exc # "" THEN para_text
  ELSE IF Truthy(para_text.val) THEN Ok(JList(<<para_text.val, EmptyStr>>))
  ELSE Ok(EmptyList)

(* "#" * level: defined for an int or a bool *)
HeadingPrefix(level) ==
  IF level.k \in {"num", "bool"} THEN Ok(JStr(Repeat(<<"#">>, level.n) \o <<" ">>))
  ELSE Raise("TypeError")

(* HeadingNode without the indent before the "#" run *)
HeadingNodeNoIndent(node, indent_level, list_prefix) ==
  LET attrs == Get(node, s_attrs, EmptyMap) IN
  IF attrs.k # "map" THEN Raise("AttributeError")
  ELSE LET heading_prefix == HeadingPrefix(Get(attrs, s_level, JNum(1))) IN
    IF heading_prefix.exc # "" THEN heading_prefix
    ELSE LET heading_text == _process_content_nodes(Get(node, s_content, EmptyList), 0, <<>>) IN
      IF heading_text.exc # "" THEN heading_text
      ELSE Ok(JList(<<JStr(heading_prefix.val.s \o heading_text.val.s), EmptyStr>>))

(* node_type == "heading" *)
HeadingNode(node, indent_level, list_prefix) ==
  LET attrs == Get(node, s_attrs, EmptyMap) IN
  IF attrs.k # "map" THEN Raise("AttributeError")
  ELSE LET heading_prefix == HeadingPrefix(Get(attrs, s_level, JNum(1))) IN
    IF heading_prefix.exc # "" THEN heading_prefix
    ELSE LET heading_text == _process_content_nodes(Get(node, s_content, EmptyList), 0, <<>>) IN
      IF heading_text.exc # "" THEN heading_text
      ELSE Ok(JList(<<JStr(Indent(indent_level) \o heading_prefix.val.s \o heading_text.val.s),
                      EmptyStr>>))

(* the loop of the bulletList branch, from item number i on *)
BulletItems(items, i, acc, indent_level) ==
  IF i > Len(items) THEN Ok(JList(acc))
  ELSE IF items[i].k # "map" THEN Raise("AttributeError")
  ELSE LET item_text == _process_content_nodes(Get(items[i], s_content, EmptyList),
                                               indent_level + 1, <<BULLET, " ">>) IN
    IF item_text.exc # "" THEN item_text
    ELSE BulletItems(items, i + 1, Append(acc, item_text.val), indent_level)

(* BulletListNode entering the list two levels deeper *)
BulletListNodeDeeper(node, indent_level, list_prefix) ==
  LET content == Get(node, s_content, EmptyList) IN
  IF ~Iterable(content) THEN Raise("TypeError")
  ELSE BulletItems(Iter(content), 1, <<>>, indent_level + 1)

(* node_type == "bulletList" *)
BulletListNode(node, indent_level, list_prefix) ==
  LET content == Get(node, s_content, EmptyList) IN
  IF ~Iterable(content) THEN Raise("TypeError")
  ELSE BulletItems(Iter(content), 1, <<>>, indent_level)

(* the list prefix of item number i (from 1) of an ordered list: f"{i+1}. " *)
OrderedPrefix(i) == IntStr(i) \o <<".", " ">>

(* the loop of the orderedList branch, from item number i on *)
OrderedItems(items, i, acc, indent_level) ==
  IF i > Len(items) THEN Ok(JList(acc))
  ELSE IF items[i].k # "map" THEN Raise("AttributeError")
  ELSE LET item_text == _process_content_nodes(Get(items[i], s_content, EmptyList),
                                               indent_level + 1, OrderedPrefix(i)) IN
    IF item_text.exc # "" THEN item_text
    ELSE OrderedItems(items, i + 1, Append(acc, item_text.val), indent_level)

(* node_type == "orderedList" *)
OrderedListNode(node, indent_level, list_prefix) ==
  LET content == Get(node, s_content, EmptyList) IN
  IF ~Iterable(content) THEN Raise("TypeError")
  ELSE OrderedItems(Iter(content), 1, <<>>, indent_level)

(* the loop of the listItem branch, from content number i on *)
ListItemContents(contents, i, acc, indent_level, list_prefix) ==
  IF i > Len(contents) THEN Ok(JList(acc))
  ELSE LET content_text == _process_content_nodes(JList(<<contents[i]>>), indent_level, list_prefix) IN
    IF content_text.exc # "" THEN content_text
    ELSE ListItemContents(contents, i + 1, Append(acc, content_text.val), indent_level, list_prefix)

(* node_type == "listItem" *)
ListItemNode(node, indent_level, list_prefix) ==
  LET content == Get(node, s_content, EmptyList) IN
  IF ~Iterable(content) THEN Raise("TypeError")
  ELSE ListItemContents(Iter(content), 1, <<>>, indent_level, list_prefix)

(* FallbackNode leaving list_prefix at its default in the recursive call *)
FallbackNodeNoPrefix(node, indent_level, list_prefix) ==
  IF HasKey(node, s_content)
  THEN LET nested_text == _process_content_nodes(Get(node, s_content, EmptyList), indent_level, <<>>) IN
       IF nested_text.exc # "" THEN nested_text ELSE Ok(JList(<<nested_text.val>>))
  ELSE Ok(EmptyList)

(* any other node type: recurse into "content" when the key is present, else nothing *)
FallbackNode(node, indent_level, list_prefix) ==
  IF HasKey(node, s_content)
  THEN LET nested_text == _process_content_nodes(Get(node, s_content, EmptyList),
                                                 indent_level, list_prefix) IN
       IF nested_text.exc # "" THEN nested_text ELSE Ok(JList(<<nested_text.val>>))
  ELSE Ok(EmptyList)

(* the body of the loop over nodes: the entries one node appends to result *)
NodeStep(node, indent_level, list_prefix) ==
  IF node.k # "map" THEN Raise("AttributeError")
  ELSE LET node_type == Get(node, s_type, EmptyStr) IN
    CASE IsStr(node_type, s_text) -> TextNode(node, indent_level, list_prefix)
      [] IsStr(node_type, s_paragraph) -> ParagraphNode(node, indent_level, list_prefix)
      [] IsStr(node_type, s_heading) -> HeadingNode(node, indent_level, list_prefix)
      [] IsStr(node_type, s_bulletList) -> BulletListNode(node, indent_level, list_prefix)
      [] IsStr(node_type, s_orderedList) -> OrderedListNode(node, indent_level, list_prefix)
      [] IsStr(node_type, s_listItem) -> ListItemNode(node, indent_level, list_prefix)
      [] IsStr(node_type, s_codeBlock) -> CodeBlockNode(node, indent_level, list_prefix)
      [] IsStr(node_type, s_rule) -> RuleNode(node, indent_level, list_prefix)
      [] IsStr(node_type, s_mention) -> MentionNode(node, indent_level, list_prefix)
      [] IsStr(node_type, s_hardBreak) -> HardBreakNode(node, indent_level, list_prefix)
      [] OTHER -> FallbackNode(node, indent_level, list_prefix)

(* the loop over nodes, from node number i on, with the entries appended so far *)
NodesLoop(nodes, i, result, indent_level, list_prefix) ==
  IF i > Len(nodes) THEN Ok(JList(result))
  ELSE LET step == NodeStep(nodes[i], indent_level, list_prefix) IN
    IF step.exc # "" THEN step
    ELSE NodesLoop(nodes, i + 1, result \o step.val.items, indent_level, list_prefix)

_process_content_nodes(nodes, indent_level, list_prefix) ==
  IF ~Truthy(nodes) THEN Ok(EmptyStr)
  ELSE IF ~Iterable(nodes) THEN Raise("TypeError")
  ELSE LET result == NodesLoop(Iter(nodes), 1, <<>>, indent_level, list_prefix) IN
    IF result.exc # "" THEN result ELSE JoinResult(result.val.items)

----------------------------------------------------------------------------
(* extract_comment_text, src/server.py lines 77 to 100 *)

(* extract_comment_text without the isinstance(str) test, falling back to repr *)
extract_comment_text_repr(comment_body) ==
  IF comment_body.k = "null" THEN Ok(EmptyStr)
  ELSE IF comment_body.k = "map" /\ HasKey(comment_body, s_content)
    THEN _process_content_nodes(Get(comment_body, s_content, EmptyList), 0, <<>>)
  ELSE Ok(JStr(PyRepr(comment_body)))

extract_comment_text(comment_body) ==
  IF comment_body.k = "null" THEN Ok(EmptyStr)
  ELSE IF comment_body.k = "str" THEN Ok(comment_body)
  ELSE IF comment_body.k = "map" /\ HasKey(comment_body, s_content)
    THEN _process_content_nodes(Get(comment_body, s_content, EmptyList), 0, <<>>)
  ELSE Ok(JStr(PyStr(comment_body)))

----------------------------------------------------------------------------
(* get_description_text, src/server.py lines 38 to 73 *)

(* the loop over the text nodes of a paragraph, from node number i on, appending
   to text_parts; bulleted inside a list item, where "• " + text is appended *)
RECURSIVE DescTextNodes(_, _, _, _)
DescTextNodes(nodes, i, text_parts, bulleted) ==
  IF i > Len(nodes) THEN Ok(JList(text_parts))
  ELSE IF nodes[i].k # "map" THEN Raise("AttributeError")
  ELSE IF ~IsStr(Get(nodes[i], s_type, JNull), s_text)
    THEN DescTextNodes(nodes, i + 1, text_parts, bulleted)
  ELSE LET text == Get(nodes[i], s_text, EmptyStr) IN
    IF ~bulleted THEN DescTextNodes(nodes, i + 1, Append(text_parts, text), bulleted)
    ELSE IF text.k # "str" THEN Raise("TypeError")
    ELSE DescTextNodes(nodes, i + 1, Append(text_parts, JStr(<<BULLET, " ">> \o text.s)), bulleted)

(* for text_node in paragraph.get("content", []) *)
DescParagraph(paragraph, text_parts, bulleted) ==
  LET content == Get(paragraph, s_content, EmptyList) IN
  IF ~Iterable(content) THEN Raise("TypeError")
  ELSE DescTextNodes(Iter(content), 1, text_parts, bulleted)

(* for item_content in list_item.get("content", []), from number i on *)
RECURSIVE DescItemContents(_, _, _)
DescItemContents(contents, i, text_parts) ==
  IF i > Len(contents) THEN Ok(JList(text_parts))
  ELSE IF contents[i].k # "map" THEN Raise("AttributeError")
  ELSE IF ~IsStr(Get(contents[i], s_type, JNull), s_paragraph)
    THEN DescItemContents(contents, i + 1, text_parts)
  ELSE LET r == DescParagraph(contents[i], text_parts, TRUE) IN
    IF r.exc # "" THEN r ELSE DescItemContents(contents, i + 1, r.val.items)

(* for list_item in content_item.get("content", []), from number i on *)
RECURSIVE DescListItems(_, _, _)
DescListItems(items, i, text_parts) ==
  IF i > Len(items) THEN Ok(JList(text_parts))
  ELSE IF items[i].k # "map" THEN Raise("AttributeError")
  ELSE LET content == Get(items[i], s_content, EmptyList) IN
    IF ~Iterable(content) THEN Raise("TypeError")
    ELSE LET r == DescItemContents(Iter(content), 1, text_parts) IN
      IF r.exc # "" THEN r ELSE DescListItems(items, i + 1, r.val.items)

(* for content_item in description.get("content", []), from number i on *)
RECURSIVE DescContentItems(_, _, _)
DescContentItems(items, i, text_parts) ==
  IF i > Len(items) THEN Ok(JList(text_parts))
  ELSE IF items[i].k # "map" THEN Raise("AttributeError")
  ELSE LET item_type == Get(items[i], s_type, JNull)
           r == IF IsStr(item_type, s_paragraph) THEN DescParagraph(items[i], text_parts, FALSE)
                ELSE IF IsStr(item_type, s_bulletList) \/ IsStr(item_type, s_orderedList)
                  THEN LET content == Get(items[i], s_content, EmptyList) IN
                       IF ~Iterable(content) THEN Raise("TypeError")
                       ELSE DescListItems(Iter(content), 1, text_parts)
                ELSE Ok(JList(text_parts))
       IN IF r.exc # "" THEN r ELSE DescContentItems(items, i + 1, r.val.items)

get_description_text(description) ==
  IF description.k = "null" THEN Ok(EmptyStr)
  ELSE IF description.k = "str" THEN Ok(description)
  ELSE IF description.k = "map" /\ HasKey(description, s_content)
    THEN LET content == Get(description, s_content, EmptyList) IN
         IF ~Iterable(content) THEN Raise("TypeError")
         ELSE LET text_parts == DescContentItems(Iter(content), 1, <<>>) IN
           IF text_parts.exc # "" THEN text_parts
           ELSE IF \E i \in 1..Len(text_parts.val.items) : text_parts.val.items[i].k # "str"
             THEN Raise("TypeError")
           ELSE Ok(JStr(JoinStr(<<NL>>, [i \in 1..Len(text_parts.val.items) |->
                                           text_parts.val.items[i].s])))
  ELSE IF description.k = "map" /\ HasKey(description, s_text)
    THEN Ok(Get(description, s_text, EmptyStr))
  ELSE Ok(JStr(PyStr(description)))

----------------------------------------------------------------------------
(* The inputs: decoded comment and description bodies, well formed and not *)

Node(type, ks, xs) == JMap(<<s_type>> \o ks, <<JStr(type)>> \o xs)

WithContent(type, children) == Node(type, <<s_content>>, <<JList(children)>>)

Doc(children) == WithContent(s_doc, children)

Text(t) == Node(s_text, <<s_text>>, <<JStr(t)>>)

MarkedText(t, marks) == Node(s_text, <<s_text, s_marks>>, <<JStr(t), marks>>)

Paragraph(children) == WithContent(s_paragraph, children)

ListItem(children) == WithContent(s_listItem, children)

ListOf(kind, items) == WithContent(kind, items)

Heading(attrs, children) == Node(s_heading, <<s_attrs, s_content>>, <<attrs, JList(children)>>)

Link(attrs) == Node(s_link, <<s_attrs>>, <<attrs>>)

Href(h) == JMap(<<s_href>>, <<h>>)

Level(l) == JMap(<<s_level>>, <<l>>)

Texts == {<<"a">>, <<"b", "c">>}

Hrefs == {JStr(<<"u">>), JStr(<<>>)}

(* values that are not sequences of nodes *)
NonSeq == {JNull, JNum(0), JNum(5), JBool(TRUE), JStr(<<>>), JStr(<<"a">>), EmptyMap,
           JMap(<<s_type>>, <<JStr(s_text)>>)}

(* the marks of a text node: sequences of mappings whose attrs, when present, is a mapping *)
Marks == {<<>>, <<Node(s_strong, <<>>, <<>>)>>, <<Node(s_link, <<>>, <<>>)>>, <<Link(EmptyMap)>>,
          <<Node(s_strong, <<>>, <<>>), Link(Href(JStr(<<"v">>)))>>,
          <<Link(Href(JStr(<<"u">>))), Link(Href(JStr(<<"v">>)))>>}
         \cup {<<Link(Href(h))>> : h \in Hrefs}

(* marks of other shapes *)
BadMarks == {JNull, JNum(5), JList(<<JNull>>), JList(<<Link(JNull)>>), JList(<<Link(JStr(s_href))>>)}

TextNodes == {Text(t) : t \in Texts \cup {<<>>}}
             \cup {MarkedText(t, JList(m)) : t \in Texts, m \in Marks}
             \cup {MarkedText(<<"a">>, m) : m \in BadMarks}
             \cup {Node(s_text, <<>>, <<>>), Node(s_text, <<s_text>>, <<JNull>>)}

(* the attrs of a heading, with level an integer *)
IntLevels == {Level(JNum(l)) : l \in (-1)..MaxLevel}

(* other attrs of a heading *)
OtherLevels == {EmptyMap, Level(JNull), Level(JStr(<<"2">>)), Level(JBool(TRUE)), JNull}

HeadingNodes == {Heading(a, <<Text(t)>>) : a \in IntLevels \cup OtherLevels, t \in Texts}
                \cup {WithContent(s_heading, <<Text(t)>>) : t \in Texts}

Containers == {s_paragraph, s_heading, s_bulletList, s_orderedList, s_listItem, s_codeBlock, s_panel}

(* nodes whose content is not a sequence *)
BadContentNodes == {Node(type, <<s_content>>, <<c>>) : type \in Containers, c \in NonSeq}

(* nodes of an unrecognized type, and nodes whose type is missing or no string *)
UnknownNodes == {Node(s_panel, <<>>, <<>>), EmptyMap, JMap(<<s_type>>, <<JNum(5)>>)}
                \cup {WithContent(s_panel, <<Text(t)>>) : t \in Texts}
                \cup {WithContent(s_panel, <<>>), JMap(<<s_content>>, <<JList(<<Text(<<"a">>)>>)>>),
                      WithContent(s_panel, <<Paragraph(<<Text(<<"a">>)>>)>>)}

OtherNodes == {Node(s_rule, <<>>, <<>>), Node(s_hardBreak, <<>>, <<>>),
               Node(s_mention, <<>>, <<>>), Node(s_mention, <<s_attrs>>, <<JNull>>),
               Node(s_mention, <<s_attrs>>, <<JMap(<<s_text>>, <<JStr(<<"@", "b">>)>>)>>),
               WithContent(s_codeBlock, <<Text(<<"a">>), Text(<<"b", "c">>)>>),
               WithContent(s_codeBlock, <<Text(<<"a">>), Node(s_text, <<s_text>>, <<JNull>>)>>),
               Paragraph(<<>>), Paragraph(<<Text(<<"a">>)>>),
               Paragraph(<<Text(<<"a">>), Node(s_hardBreak, <<>>, <<>>), Text(<<"b", "c">>)>>),
               ListItem(<<Paragraph(<<Text(<<"a">>)>>)>>),
               JNull, JNum(5), JStr(<<"a">>), JList(<<>>)}

(* a document of one node *)
OneNodeDocs == {Doc(<<n>>) : n \in TextNodes \cup HeadingNodes \cup BadContentNodes
                                  \cup UnknownNodes \cup OtherNodes}

(* all strings over cs of length at most n *)
RECURSIVE StringsUpTo(_, _)
StringsUpTo(cs, n) ==
  IF n = 0 THEN {<<>>}
  ELSE LET shorter == StringsUpTo(cs, n - 1) IN
       shorter \cup {Append(s, c) : s \in shorter, c \in cs}

(* inputs that are no document: None, plain strings, numbers, lists, and mappings
   without "content" or with a "content" that is no sequence *)
PlainInputs == {JNull, JBool(TRUE), JBool(FALSE), JNum(0), JNum(5), JNum(-12), JList(<<>>),
                JList(<<JStr(<<"a">>), JNum(1)>>), EmptyMap, Doc(<<>>),
                JMap(<<s_type>>, <<JStr(s_doc)>>),
                JMap(<<s_type, s_text>>, <<JStr(s_text), JStr(<<"a">>)>>)}
               \cup {JStr(s) : s \in StringsUpTo({"a", " ", "#", NL}, MaxStrLen)}
               \cup {JMap(<<s_text>>, <<v>>) : v \in {JStr(<<"a">>), JStr(<<>>), JNull, JNum(5)}}
               \cup {JMap(<<s_type, s_content>>, <<JStr(s_doc), c>>) : c \in NonSeq}
               \cup {JMap(<<s_content>>, <<c>>) : c \in NonSeq}

ListKinds == {s_bulletList, s_orderedList}

(* all sequences over S of length 1 to n *)
SeqsUpTo(S, n) == UNION {[1..m -> S] : m \in 1..n}

(* a list item of one paragraph of one text node *)
TextItem(t) == ListItem(<<Paragraph(<<Text(t)>>)>>)

(* a document of one list whose items are text items *)
FlatListDocs == {Doc(<<ListOf(kind, [i \in 1..Len(ts) |-> TextItem(ts[i])])>>) :
                   kind \in ListKinds, ts \in SeqsUpTo(Texts, MaxItems)}

(* the text of the paragraph that opens the item of the list at depth d *)
LevelText(d) == <<"t", Digit(d)>>

(* the list at depth d of a nest of lists of the given kinds: pos - 1 text items,
   then the item that holds the next list of the nest, or at the last depth the payload *)
RECURSIVE Nest(_, _, _, _)
Nest(kinds, d, pos, payload) ==
  ListOf(kinds[d],
         [i \in 1..(pos - 1) |-> TextItem(<<"x">>)]
         \o <<IF d = Len(kinds) THEN ListItem(<<payload>>)
              ELSE ListItem(<<Paragraph(<<Text(LevelText(d))>>), Nest(kinds, d + 1, pos, payload)>>)>>)

(* what the innermost list item of a nest holds *)
Payloads == {Paragraph(<<Text(t)>>) : t \in Texts}
            \cup {MarkedText(<<"a">>, JList(m)) : m \in Marks}
            \cup {Text(<<"a">>), MarkedText(<<"a">>, JList(<<Link(JNull)>>))}
            \cup {Heading(a, <<Text(<<"a">>)>>) : a \in IntLevels \cup {EmptyMap, Level(JStr(<<"2">>))}}
            \cup {WithContent(s_heading, <<Text(<<"a">>)>>)}
            \cup {Node(s_panel, <<>>, <<>>), WithContent(s_panel, <<Text(<<"a">>)>>),
                  Node(s_panel, <<s_content>>, <<JNum(5)>>),
                  Node(s_mention, <<>>, <<>>)}

NestDocs == {Doc(<<Nest(kinds, 1, pos, payload)>>) :
               kinds \in SeqsUpTo(ListKinds, MaxNest), pos \in 1..MaxItems, payload \in Payloads}

(* nodes that stand side by side in a document of two nodes *)
Siblings == {Paragraph(<<Text(<<"a">>)>>), Paragraph(<<>>), Text(<<"a">>), Text(<<>>),
             Node(s_rule, <<>>, <<>>), Node(s_hardBreak, <<>>, <<>>), Node(s_panel, <<>>, <<>>),
             WithContent(s_panel, <<>>), Paragraph(<<Text(<<>>)>>)}

TwoNodeDocs == {Doc(<<a, b>>) : a \in Siblings, b \in Siblings}

Inputs == PlainInputs \cup OneNodeDocs \cup FlatListDocs \cup NestDocs \cup TwoNodeDocs

----------------------------------------------------------------------------
(* The calls.  The two functions are pure: a call reads its argument only, and
   the state holds the argument and what each call so far returned or raised. *)

Init ==
  /\ input \in Inputs
  /\ comment_out = <<>>
  /\ desc_out = <<>>

(* readable_comment_body = extract_comment_text(comment_body) *)
CallExtractCommentText ==
  /\ Len(comment_out) < MaxCalls
  /\ comment_out' = Append(comment_out, extract_comment_text(input))
  /\ UNCHANGED <<input, desc_out>>

(* get_description_text(description) *)
CallGetDescriptionText ==
  /\ Len(desc_out) < MaxCalls
  /\ desc_out' = Append(desc_out, get_description_text(input))
  /\ UNCHANGED <<input, comment_out>>

Next == CallExtractCommentText \/ CallGetDescriptionText

Spec == Init /\ [][Next]_vars

----------------------------------------------------------------------------
(* Reading an output *)

(* the lines of s from character i on, line being the part of the first one read so far *)
RECURSIVE LinesFrom(_, _, _)
LinesFrom(s, i, line) ==
  IF i > Len(s) THEN <<line>>
  ELSE IF s[i] = NL THEN <<line>> \o LinesFrom(s, i + 1, <<>>)
  ELSE LinesFrom(s, i + 1, Append(line, s[i]))

(* s.split("\n") *)
Lines(s) == LinesFrom(s, 1, <<>>)

(* the number of spaces a line starts with *)
LeadingSpaces(line) ==
  IF \A i \in 1..Len(line) : line[i] = " " THEN Len(line)
  ELSE (CHOOSE i \in 1..Len(line) : line[i] # " " /\ \A j \in 1..(i - 1) : line[j] = " ") - 1

EndsWith(s, suffix) ==
  Len(s) >= Len(suffix) /\ SubSeq(s, Len(s) - Len(suffix) + 1, Len(s)) = suffix

(* the parts occur in s one after the other, from position from on *)
RECURSIVE OccurInOrder(_, _, _)
OccurInOrder(s, parts, from) ==
  \/ parts = <<>>
  \/ \E p \in from..(Len(s) - Len(parts[1]) + 1) :
       /\ SubSeq(s, p, p + Len(parts[1]) - 1) = parts[1]
       /\ OccurInOrder(s, Tail(parts), p + Len(parts[1]))

(* the calls of extract_comment_text made so far *)
Calls == 1..Len(comment_out)

----------------------------------------------------------------------------
(* The claims *)

(* C1: extract_comment_text never raises: whatever the input, every call
   returns a string. *)
C1_NeverRaises ==
  \A i \in Calls : comment_out[i].exc = "" /\ comment_out[i].val.k = "str"

(* the document of one ordered list of text items with the texts ts *)
OrderedTextDoc(ts) == Doc(<<ListOf(s_orderedList, [j \in 1..Len(ts) |-> TextItem(ts[j])])>>)

(* C2: for an ordered list of n items, each one paragraph of one text node, the
   output shows the text of item i preceded by "i. ", for every i, in input order. *)
C2_OrderedPrefixes ==
  \A ts \in SeqsUpTo(Texts, MaxItems) :
    input = OrderedTextDoc(ts) =>
      \A i \in Calls :
        /\ comment_out[i].exc = ""
        /\ OccurInOrder(comment_out[i].val.s, [j \in 1..Len(ts) |-> OrderedPrefix(j) \o ts[j]], 1)

(* the input is a mapping with a "text" key and no "content" key *)
TextOnlyInput == input.k = "map" /\ ~HasKey(input, s_content) /\ HasKey(input, s_text)

(* C3: for a mapping with no "content" key and a "text" key the result is the
   text value, or the empty string when the text value is null. *)
C3_TextKeyReturned ==
  TextOnlyInput =>
    LET expected == IF Item(input, s_text).k = "null" THEN EmptyStr ELSE Item(input, s_text) IN
    /\ \A i \in Calls : comment_out[i] = Ok(expected)
    /\ \A i \in 1..Len(desc_out) : desc_out[i] = Ok(expected)

----------------------------------------------------------------------------
(* Where a node stands in an input *)

Children(n) == Get(n, s_content, EmptyList).items

IsNode(n, type) == n.k = "map" /\ IsStr(Get(n, s_type, EmptyStr), type)

(* the innermost list of a nest, from the list l at depth d: its depth and kind,
   the position of its last item and what that item holds *)
RECURSIVE Inner(_, _)
Inner(l, d) ==
  LET items == Children(l)
      held == Children(items[Len(items)])
  IN IF Len(held) = 2 THEN Inner(held[2], d + 1)
     ELSE [depth |-> d, kind |-> Get(l, s_type, EmptyStr).s, pos |-> Len(items), payload |-> held[1]]

(* the prefix a list of this kind passes to its item number pos *)
PrefixOf(kind, pos) == IF kind = s_bulletList THEN <<BULLET, " ">> ELSE IntStr(pos) \o <<".", " ">>

(* the input is a document of one node *)
IsOneNodeDoc(v) ==
  v.k = "map" /\ HasKey(v, s_content) /\ Item(v, s_content).k = "list" /\ Len(Children(v)) = 1

(* the node is a list that holds items: among the inputs, the outermost list of a
   nest of lists or a list of text items *)
IsFilledList(n) ==
  /\ IsNode(n, s_bulletList) \/ IsNode(n, s_orderedList)
  /\ Get(n, s_content, JNull).k = "list"
  /\ Children(n) # <<>>

(* the node under study, with the indent level and list prefix of the call that
   renders it: the only node of a document, or what the last item of the
   innermost list of a nest of lists holds *)
Site ==
  IF ~IsOneNodeDoc(input) THEN [at |-> FALSE, node |-> JNull, indent |-> 0, prefix |-> <<>>]
  ELSE IF IsFilledList(Children(input)[1])
    THEN LET in == Inner(Children(input)[1], 1) IN
         [at |-> TRUE, node |-> in.payload, indent |-> in.depth, prefix |-> PrefixOf(in.kind, in.pos)]
  ELSE [at |-> TRUE, node |-> Children(input)[1], indent |-> 0, prefix |-> <<>>]

(* a heading of one text child *)
IsTextHeading(n) ==
  /\ IsNode(n, s_heading)
  /\ Get(n, s_content, JNull).k = "list"
  /\ Len(Children(n)) = 1
  /\ Children(n)[1] \in {Text(t) : t \in Texts}

HeadingText(n) == Item(Children(n)[1], s_text).s

(* the level of a heading as the specification reads it: attrs.level when it is a
   positive integer, else 1 *)
ClaimedLevel(n) ==
  LET attrs == Get(n, s_attrs, EmptyMap)
      level == IF attrs.k = "map" THEN Get(attrs, s_level, JNum(1)) ELSE JNum(1)
  IN IF level.k = "num" /\ level.n >= 1 THEN level.n ELSE 1

(* C4: a heading renders as level times "#", a space, its rendered children and
   a blank line, the level being attrs.level, or 1 when attrs or attrs.level is
   absent or attrs.level is no positive integer. *)
C4_HeadingLevel ==
  (Site.at /\ Site.indent = 0 /\ IsTextHeading(Site.node)) =>
    \A i \in Calls :
      comment_out[i] = Ok(JStr(Repeat(<<"#">>, ClaimedLevel(Site.node)) \o <<" ">>
                               \o HeadingText(Site.node) \o <<NL>>))

(* the level of the heading is absent or an integer *)
HasIntLevel(n) ==
  LET attrs == Get(n, s_attrs, EmptyMap) IN
  attrs.k = "map" /\ Get(attrs, s_level, JNum(1)).k = "num"

LevelOf(n) == Get(Get(n, s_attrs, EmptyMap), s_level, JNum(1)).n

HeadingSite == Site.at /\ IsTextHeading(Site.node) /\ HasIntLevel(Site.node)

(* C5 as stated: a heading is never indented: at every ambient indent level its
   line starts with "#", with no indent unit before it, and its children are
   rendered at indent 0 with an empty prefix. *)
C5_HeadingNeverIndented ==
  (HeadingSite /\ LevelOf(Site.node) >= 1) =>
    LET line == Repeat(<<"#">>, LevelOf(Site.node)) \o <<" ">> \o HeadingText(Site.node) IN
    \A i \in Calls :
      /\ comment_out[i].exc = ""
      /\ LET lines == Lines(comment_out[i].val.s) IN \E j \in 1..Len(lines) : lines[j] = line

(* C5 amended: the line of a heading at ambient indent level N is N indent units,
   then the "#" run and a space, then its children rendered at indent 0 with an
   empty prefix. *)
C5_HeadingIndentedByAmbient ==
  HeadingSite =>
    LET line == Indent(Site.indent) \o Repeat(<<"#">>, LevelOf(Site.node)) \o <<" ">>
                  \o HeadingText(Site.node) IN
    \A i \in Calls :
      /\ comment_out[i].exc = ""
      /\ LET lines == Lines(comment_out[i].val.s) IN \E j \in 1..Len(lines) : lines[j] = line

(* a heading two lists deep has been rendered *)
C5_Witness ==
  /\ HeadingSite /\ Site.indent = 2 /\ LevelOf(Site.node) = 2
  /\ Len(comment_out) >= 1 /\ comment_out[1].exc = ""

(* a text node whose text is a string and whose marks are absent or a sequence
   of mappings whose attrs, when present, is a mapping *)
IsPlainText(n) ==
  n \in {Text(t) : t \in Texts \cup {<<>>}} \cup {MarkedText(t, JList(m)) : t \in Texts, m \in Marks}

TextSite == Site.at /\ IsPlainText(Site.node)

MarksOf(n) == Get(n, s_marks, EmptyList).items

(* the mark is a link whose attrs hold an href *)
IsLinkWithHref(mark) ==
  IsNode(mark, s_link) /\ HasKey(mark, s_attrs) /\ HasKey(Item(mark, s_attrs), s_href)

HrefOf(mark) == Item(Item(mark, s_attrs), s_href).s

(* indent + listPrefix + text of the text node under study *)
TextBase == Indent(Site.indent) \o Site.prefix \o Item(Site.node, s_text).s

(* the line the text node under study is rendered on: the last line of the output *)
TextLine(i) == LET lines == Lines(comment_out[i].val.s) IN lines[Len(lines)]

(* C6 as stated: a text node renders as indent + listPrefix + text, and a suffix
   " (href)" follows if and only if one of its marks is a link with a non-empty href. *)
C6_SuffixIffNonEmptyHref ==
  TextSite =>
    \A i \in Calls :
      /\ comment_out[i].exc = ""
      /\ SubSeq(TextLine(i), 1, Len(TextBase)) = TextBase
      /\ (TextLine(i) # TextBase) <=>
           (\E m \in 1..Len(MarksOf(Site.node)) :
              IsLinkWithHref(MarksOf(Site.node)[m]) /\ HrefOf(MarksOf(Site.node)[m]) # <<>>)

(* " (href)" for every link mark that holds an href, in the order of the marks *)
RECURSIVE LinkSuffixes(_)
LinkSuffixes(marks) ==
  IF marks = <<>> THEN <<>>
  ELSE (IF IsLinkWithHref(marks[1]) THEN <<" ", "(">> \o HrefOf(marks[1]) \o <<")">> ELSE <<>>)
       \o LinkSuffixes(Tail(marks))

(* C6 amended: a text node renders as indent + listPrefix + text, followed by one
   suffix " (href)" for each of its marks of type link whose attrs hold an href
   key, in order, the href being empty or not; with no such mark there is no suffix. *)
C6_SuffixPerLinkWithHrefKey ==
  TextSite =>
    \A i \in Calls :
      /\ comment_out[i].exc = ""
      /\ TextLine(i) = TextBase \o LinkSuffixes(MarksOf(Site.node))

(* a text node with a link mark of empty href, inside a list, has been rendered *)
C6_Witness ==
  /\ TextSite /\ Site.indent >= 1
  /\ \E m \in 1..Len(MarksOf(Site.node)) :
       IsLinkWithHref(MarksOf(Site.node)[m]) /\ HrefOf(MarksOf(Site.node)[m]) = <<>>
  /\ Len(comment_out) >= 1 /\ comment_out[1].exc = ""

(* the nests of bullet lists that hold text paragraphs only *)
BulletNestDocs ==
  {Doc(<<Nest([d \in 1..n |-> s_bulletList], 1, pos, Paragraph(<<Text(t)>>))>>) :
     n \in 1..MaxNest, pos \in 1..MaxItems, t \in Texts}

(* the text of the paragraph the nested item of the list at depth d starts with *)
TextAtDepth(d) ==
  LET in == Inner(Children(input)[1], 1) IN
  IF d = in.depth THEN Item(Children(in.payload)[1], s_text).s ELSE LevelText(d)

(* the number of spaces before the text of depth d in the output s *)
SpacesAtDepth(s, d) ==
  LET lines == Lines(s)
      text == TextAtDepth(d)
  IN LeadingSpaces(lines[CHOOSE j \in 1..Len(lines) : EndsWith(lines[j], text)])

(* C7: in a nest of bullet lists the lines of an inner list are indented by
   exactly one two-space unit more than the lines of the enclosing list; the
   level starts at 0 and grows by 1 per list entered. *)
C7_NestedIndent ==
  input \in BulletNestDocs =>
    \A i \in Calls :
      /\ comment_out[i].exc = ""
      /\ \A d \in 1..Inner(Children(input)[1], 1).depth :
           /\ LET lines == Lines(comment_out[i].val.s) IN
              \E j \in 1..Len(lines) : EndsWith(lines[j], TextAtDepth(d))
           /\ SpacesAtDepth(comment_out[i].val.s, d) =
                IF d = 1 THEN 2 ELSE SpacesAtDepth(comment_out[i].val.s, d - 1) + 2

(* a nest of bullet lists of the full depth has been rendered *)
C7_Witness ==
  /\ input \in BulletNestDocs
  /\ Inner(Children(input)[1], 1).depth = MaxNest
  /\ Len(comment_out) >= 1 /\ comment_out[1].exc = ""

KnownTypes == {s_text, s_paragraph, s_heading, s_bulletList, s_orderedList, s_listItem,
               s_codeBlock, s_rule, s_mention, s_hardBreak}

(* a node whose type is none of the recognized ones (or is missing, or no string) *)
IsUnknown(n) ==
  n.k = "map" /\ ~(Get(n, s_type, EmptyStr).k = "str" /\ Get(n, s_type, EmptyStr).s \in KnownTypes)

UnknownSite == Site.at /\ IsUnknown(Site.node)

(* C8: a node of unrecognized type with a "content" field renders as that content
   rendered at the same indent level and list prefix (the text of a child text
   node appears, behind the indent and the prefix); one without "content"
   contributes nothing and does not raise. *)
C8_UnknownDegrades ==
  /\ (UnknownSite /\ HasKey(Site.node, s_content)) =>
       LET r == _process_content_nodes(Item(Site.node, s_content), Site.indent, Site.prefix) IN
       \A i \in Calls :
         /\ r.exc # "" => comment_out[i] = r
         /\ r.exc = "" => comment_out[i].exc = "" /\ EndsWith(comment_out[i].val.s, r.val.s)
         /\ Site.indent = 0 => comment_out[i] = r
         /\ \A t \in Texts :
              Item(Site.node, s_content) = JList(<<Text(t)>>) =>
                comment_out[i].exc = "" /\ TextLine(i) = Indent(Site.indent) \o Site.prefix \o t
  /\ (UnknownSite /\ ~HasKey(Site.node, s_content)) =>
       \A i \in Calls :
         /\ comment_out[i].exc = ""
         /\ Site.indent = 0 => comment_out[i] = Ok(EmptyStr)
         /\ TextLine(i) = <<>>
  /\ \A a \in Siblings, u \in {Node(s_panel, <<>>, <<>>)} :
       input \in {Doc(<<a, u>>), Doc(<<u, a>>)} =>
         \A i \in Calls : comment_out[i] = extract_comment_text(Doc(<<a>>))

(* an unknown node holding a text node, inside an ordered list, has been rendered *)
C8_Witness ==
  /\ UnknownSite /\ Site.indent >= 1 /\ Site.prefix = OrderedPrefix(MaxItems)
  /\ HasKey(Site.node, s_content)
  /\ Item(Site.node, s_content) = JList(<<Text(<<"a">>)>>)
  /\ Len(comment_out) >= 1 /\ comment_out[1].exc = ""

(* the input is a root whose "content" is no sequence *)
BadRootInput ==
  input \in {JMap(<<s_type, s_content>>, <<JStr(s_doc), c>>) : c \in NonSeq}
            \cup {JMap(<<s_content>>, <<c>>) : c \in NonSeq}

(* C9: a "content" that is present but no sequence, on the root or on a node, is
   treated as no content: the output is that of an empty "content", and the
   call does not raise. *)
C9_BadContentIsNoContent ==
  /\ BadRootInput => \A i \in Calls : comment_out[i] = Ok(EmptyStr)
  /\ (input \in OneNodeDocs /\ Children(input)[1] \in BadContentNodes) =>
       \A i \in Calls :
         /\ comment_out[i].exc = ""
         /\ comment_out[i] =
              extract_comment_text(Doc(<<WithContent(Item(Children(input)[1], s_type).s, <<>>)>>))

(* C10: a plain string is returned unchanged, by the first call and by every
   later call on the same string. *)
C10_StringPassThrough ==
  input.k = "str" => \A i \in Calls : comment_out[i] = Ok(input)

(* a string of the full length has been rendered twice *)
C10_Witness ==
  input.k = "str" /\ Len(input.s) = MaxStrLen /\ Len(comment_out) >= 2

(* a paragraph of one text node with a non-empty text *)
IsTextParagraph(n) ==
  /\ IsNode(n, s_paragraph)
  /\ Get(n, s_content, JNull).k = "list"
  /\ Len(Children(n)) = 1
  /\ Children(n)[1] \in {Text(t) : t \in Texts}

(* the entries a node that stands beside another is to append to result: a
   paragraph its text and one empty string, or nothing when the text is empty *)
EntriesOf(n) ==
  CASE IsTextParagraph(n) -> <<Item(Children(n)[1], s_text).s, <<>>>>
    [] IsNode(n, s_paragraph) -> <<>>
    [] IsNode(n, s_text) -> <<Item(n, s_text).s>>
    [] IsNode(n, s_rule) -> <<s_dashes, <<>>>>
    [] IsNode(n, s_hardBreak) -> <<<<>>>>
    [] HasKey(n, s_content) -> <<<<>>>>
    [] OTHER -> <<>>

(* C11: a paragraph renders its children at the same indent level with an empty
   list prefix (the prefix of an enclosing list is not passed down); it
   contributes its text and then exactly one empty-string entry when the text
   is non-empty, and nothing when it is empty; the entries of siblings are
   joined with a newline, empty-string entries kept. *)
C11_ParagraphEntries ==
  /\ (Site.at /\ IsTextParagraph(Site.node)) =>
       LET line == Indent(Site.indent) \o Item(Children(Site.node)[1], s_text).s IN
       \A i \in Calls :
         /\ comment_out[i].exc = ""
         /\ LET lines == Lines(comment_out[i].val.s) IN
            /\ Len(lines) >= 2
            /\ lines[Len(lines) - 1] = line
            /\ lines[Len(lines)] = <<>>
         /\ Site.indent = 0 => comment_out[i] = Ok(JStr(line \o <<NL>>))
  /\ input \in TwoNodeDocs =>
       \A i \in Calls :
         comment_out[i] =
           Ok(JStr(JoinStr(<<NL>>, EntriesOf(Children(input)[1]) \o EntriesOf(Children(input)[2]))))

(* a text paragraph inside a list of a nest has been rendered, and so have two
   text paragraphs side by side *)
C11_Witness ==
  /\ Len(comment_out) >= 1 /\ comment_out[1].exc = ""
  /\ \/ Site.at /\ IsTextParagraph(Site.node) /\ Site.indent = MaxNest /\ Site.prefix # <<>>
     \/ input = Doc(<<Paragraph(<<Text(<<"a">>)>>), Paragraph(<<Text(<<"a">>)>>)>>)

====
